---- MODULE Spec2Model ----
(***************************************************************************)
(* LibreRoaster: the roaster control core (control/roaster_refactored.rs,  *)
(* control/handlers.rs, control/pid.rs) and the control task that drives   *)
(* it (application/tasks.rs).                                              *)
(*                                                                         *)
(* Temperatures and percentages are f32 in the source; every value the     *)
(* model feeds in is a whole number, so they are modelled as integers.     *)
(* An Option<Instant> is modelled as a set: {} is None, {t} is Some(t).    *)
(* Instants are milliseconds.                                              *)
(***************************************************************************)
EXTENDS Integers, Sequences, FiniteSets, TLC

\* ------------------------------------------------------------------------
\* Program constants (config/constants.rs, control/handlers.rs)
\* ------------------------------------------------------------------------
DEFAULT_TARGET_TEMP == 225
MIN_TEMP == 0
MAX_TEMP == 300
PID_SAMPLE_TIME_MS == 100
OVERTEMP_THRESHOLD == 260
TEMP_VALIDITY_TIMEOUT_MS == 1000
BT_THERMOCOUPLE_OFFSET == 0
ET_THERMOCOUPLE_OFFSET == 0
HEATER_DELTA == 5

\* ------------------------------------------------------------------------
\* Bounds of the model
\* ------------------------------------------------------------------------
\* number of public operations called on the core in one run
MaxCalls == 4
\* last instant the clock may reach
MaxTime == 1100
\* the instants at which the core is called: one PID sample time and one
\* validity timeout after the start, and the end of the run
TimePoints == {0, PID_SAMPLE_TIME_MS, TEMP_VALIDITY_TIMEOUT_MS, MaxTime}
\* readings handed to update_temperatures: normal, over-temperature, invalid
BeanTemps == {25, 265, 400}
EnvTemp == 30
\* target of StartRoast / SetTemperature through the handler chain
RoastTarget == 200
\* u8 arguments of the manual heater and fan commands (one above 100)
HeaterValues == {50, 150}
FanValues == {60, 150}

VARIABLES
    roaster,    \* the RoasterControl object
    now,        \* the clock (Instant::now(), ms)
    lastOp,     \* the public operation called last: its name, its command,
                \* the Result it returned and the latch when it was called
    calls,      \* number of operations the environment has started so far
    mux,        \* the CommandMultiplexer
    cmdq,       \* the Artisan command channel (reader tasks -> control task)
    outq,       \* the output channel (control and reader tasks -> output task)
    wire,       \* the lines written to each serial channel
    panicked,   \* a task has panicked
    ssr,        \* the SsrControl object
    pwm,        \* the duty last written to the heater's PWM channel
    ssrOp,      \* the SsrControl method called last, its argument and Result
    muxOp,      \* the CommandMultiplexer method called last: its channel, its
                \* result, the multiplexer it was called on, and the method
                \* called before it
    rx,         \* the line a reader task handled last, and its channel
    sent,       \* per channel, the bytes of the line the host sent last or
                \* is sending, and whether its CR has been sent
    spi         \* the shared SPI bus and the two thermocouples' chip-selects

vars == <<roaster, now, lastOp, calls, mux, cmdq, outq, wire, panicked,
          ssr, pwm, ssrOp, muxOp, rx, sent, spi>>

hwVars == <<ssr, pwm, ssrOp, spi>>

ioVars == <<mux, cmdq, outq, wire, panicked, hwVars, muxOp, rx, sent>>

Clamp(x, lo, hi) == IF x < lo THEN lo ELSE IF x > hi THEN hi ELSE x

Abs(x) == IF x < 0 THEN -x ELSE x

\* ------------------------------------------------------------------------
\* config: SystemStatus
\* ------------------------------------------------------------------------
SystemStatusDefault ==
    [ state               |-> "Idle",
      bean_temp           |-> 0,
      env_temp            |-> 0,
      target_temp         |-> DEFAULT_TARGET_TEMP,
      ssr_output          |-> 0,
      fan_output          |-> 0,
      pid_enabled         |-> FALSE,
      artisan_control     |-> FALSE,
      fault_condition     |-> FALSE,
      ssr_hardware_status |-> "Available" ]

\* ------------------------------------------------------------------------
\* control/pid.rs: CoffeeRoasterPid
\* ------------------------------------------------------------------------
PidNew == [enabled |-> FALSE, target |-> 0]

PidEnable(pid) == [pid EXCEPT !.enabled = TRUE]

PidDisable(pid) == [pid EXCEPT !.enabled = FALSE]

PidSetTarget(pid, target) == [pid EXCEPT !.target = target]

PidComputeOutput(pid, current_temp) ==
    IF ~pid.enabled THEN 0
    ELSE Clamp((pid.target - current_temp) * 2, 0, 100)

\* ------------------------------------------------------------------------
\* OutputController: the streaming switch held by the Temperature handler
\* ------------------------------------------------------------------------
OutputControllerNew == [continuous |-> FALSE]

EnableContinuousOutput(om) == [om EXCEPT !.continuous = TRUE]

DisableContinuousOutput(om) == [om EXCEPT !.continuous = FALSE]

IsContinuousEnabled(om) == om.continuous

\* ------------------------------------------------------------------------
\* control/handlers.rs: the four command handlers.  handle_command takes
\* the handler and the status and yields both, with the returned Result.
\* ------------------------------------------------------------------------
Handled(h, status, ret) == [h |-> h, status |-> status, ret |-> ret]

TemperatureCommandHandlerNew ==
    [pid_controller |-> PidNew, output_manager |-> OutputControllerNew]

TempDisablePid(h) == [h EXCEPT !.pid_controller = PidDisable(@)]

TempEnablePid(h) == [h EXCEPT !.pid_controller = PidEnable(@)]

TempSetPidTarget(h, target) == [h EXCEPT !.pid_controller = PidSetTarget(@, target)]

TempGetPidOutput(h, bean_temp) == PidComputeOutput(h.pid_controller, bean_temp)

TempCanHandle(cmd) ==
    cmd.type \in {"StartRoast", "StopRoast", "SetTemperature", "SetHeaterManual"}

\* mutant: the manual-control flag survives the start of a roast
TempStartRoastKeepsManual(h, cmd, status) ==
    IF IsContinuousEnabled(h.output_manager) \/ status.pid_enabled
    THEN Handled(h, status, "Ok")
    ELSE Handled(
           [TempEnablePid(TempSetPidTarget(h, cmd.arg))
              EXCEPT !.output_manager = EnableContinuousOutput(@)],
           [status EXCEPT !.target_temp = cmd.arg,
                          !.pid_enabled = TRUE],
           "Ok")

\* mutant: a start while a session runs starts over with the new target
TempStartRoastRestarts(h, cmd, status) ==
    Handled(
      [TempEnablePid(TempSetPidTarget(h, cmd.arg))
         EXCEPT !.output_manager = EnableContinuousOutput(@)],
      [status EXCEPT !.target_temp = cmd.arg,
                     !.pid_enabled = TRUE,
                     !.artisan_control = FALSE],
      "Ok")

TempStartRoast(h, cmd, status) ==
    IF IsContinuousEnabled(h.output_manager) \/ status.pid_enabled
    THEN Handled(h, status, "Ok")
    ELSE Handled(
           [TempEnablePid(TempSetPidTarget(h, cmd.arg))
              EXCEPT !.output_manager = EnableContinuousOutput(@)],
           [status EXCEPT !.target_temp = cmd.arg,
                          !.pid_enabled = TRUE,
                          !.artisan_control = FALSE],
           "Ok")

TempStopRoast(h, cmd, status) ==
    Handled(
      [TempDisablePid(h) EXCEPT !.output_manager = DisableContinuousOutput(@)],
      [status EXCEPT !.ssr_output = 0,
                     !.pid_enabled = FALSE,
                     !.artisan_control = FALSE],
      "Ok")

TempSetTemperature(h, cmd, status) ==
    Handled(TempSetPidTarget(h, cmd.arg),
            [status EXCEPT !.target_temp = cmd.arg],
            "Ok")

TempSetHeaterManual(h, cmd, status) ==
    IF cmd.arg > 100
    THEN Handled(h, status, "InvalidState")
    ELSE Handled(TempDisablePid(h),
                 [status EXCEPT !.artisan_control = TRUE,
                                !.pid_enabled = FALSE,
                                !.ssr_output = cmd.arg],
                 "Ok")

TempHandleCommand(h, cmd, status) ==
    CASE cmd.type = "StartRoast"      -> TempStartRoast(h, cmd, status)
      [] cmd.type = "StopRoast"       -> TempStopRoast(h, cmd, status)
      [] cmd.type = "SetTemperature"  -> TempSetTemperature(h, cmd, status)
      [] cmd.type = "SetHeaterManual" -> TempSetHeaterManual(h, cmd, status)
      [] OTHER                        -> Handled(h, status, "InvalidState")

SafetyCommandHandlerNew == [emergency_flag |-> FALSE]

IsEmergencyActive(h) == h.emergency_flag

ClearEmergency(h) == [h EXCEPT !.emergency_flag = FALSE]

\* mutant: the flag is toggled instead of set
TriggerEmergencyToggles(h) ==
    [h |-> [h EXCEPT !.emergency_flag = ~@], ret |-> "TemperatureOutOfRange"]

\* trigger_emergency sets the flag and always returns Err
TriggerEmergency(h) ==
    [h |-> [h EXCEPT !.emergency_flag = TRUE], ret |-> "TemperatureOutOfRange"]

SafetyCanHandle(cmd) == cmd.type \in {"EmergencyStop", "ArtisanEmergencyStop"}

SafetyHandleCommand(h, cmd, status) ==
    IF cmd.type \in {"EmergencyStop", "ArtisanEmergencyStop"}
    THEN LET t == TriggerEmergency(h)
         IN  Handled(t.h,
                     [status EXCEPT !.fault_condition = TRUE,
                                    !.ssr_output = 0,
                                    !.pid_enabled = FALSE,
                                    !.ssr_hardware_status = "Error"],
                     t.ret)
    ELSE Handled(h, status, "InvalidState")

ArtisanCommandHandlerNew == [manual_heater |-> 0, manual_fan |-> 0]

SetManualValues(h, heater, fan) == [manual_heater |-> heater, manual_fan |-> fan]

\* mutant: the new value is not clamped
ApplyHeaterDeltaUnclamped(current_value, direction) ==
    current_value + direction * HEATER_DELTA

\* (current_value as i16 + direction * HEATER_DELTA).clamp(0, 100)
ApplyHeaterDelta(current_value, direction) ==
    Clamp(current_value + direction * HEATER_DELTA, 0, 100)

ArtisanCanHandle(cmd) ==
    cmd.type \in {"SetHeaterManual", "SetFanManual", "IncreaseHeater", "DecreaseHeater"}

ArtisanSetHeaterManual(h, cmd, status) ==
    IF cmd.arg > 100
    THEN Handled(h, status, "InvalidState")
    ELSE Handled([h EXCEPT !.manual_heater = cmd.arg],
                 [status EXCEPT !.artisan_control = TRUE,
                                !.pid_enabled = FALSE,
                                !.ssr_output = cmd.arg],
                 "Ok")

ArtisanSetFanManual(h, cmd, status) ==
    IF cmd.arg > 100
    THEN Handled(h, status, "InvalidState")
    ELSE Handled([h EXCEPT !.manual_fan = cmd.arg],
                 [status EXCEPT !.artisan_control = TRUE,
                                !.pid_enabled = FALSE,
                                !.fan_output = cmd.arg],
                 "Ok")

ArtisanHeaterStep(h, direction, status) ==
    LET new_value == ApplyHeaterDelta(status.ssr_output, direction)
    IN  Handled([h EXCEPT !.manual_heater = new_value],
                [status EXCEPT !.artisan_control = TRUE,
                               !.pid_enabled = FALSE,
                               !.ssr_output = new_value],
                "Ok")

ArtisanHandleCommand(h, cmd, status) ==
    CASE cmd.type = "SetHeaterManual" -> ArtisanSetHeaterManual(h, cmd, status)
      [] cmd.type = "SetFanManual"    -> ArtisanSetFanManual(h, cmd, status)
      [] cmd.type = "IncreaseHeater"  -> ArtisanHeaterStep(h, 1, status)
      [] cmd.type = "DecreaseHeater"  -> ArtisanHeaterStep(h, -1, status)
      [] OTHER                        -> Handled(h, status, "InvalidState")

SystemCanHandle(cmd) == cmd.type = "Reset"

SystemHandleCommand(h, cmd, status) ==
    IF cmd.type = "Reset"
    THEN Handled(h, SystemStatusDefault, "Ok")
    ELSE Handled(h, status, "InvalidState")

\* ------------------------------------------------------------------------
\* control/roaster_refactored.rs: RoasterControl.  Every method takes the
\* object and yields the object after the call with the returned Result.
\* ------------------------------------------------------------------------
Returned(rc, ret) == [rc |-> rc, ret |-> ret]

RoasterControlNew ==
    [ state            |-> "Idle",
      status           |-> SystemStatusDefault,
      last_temp_read   |-> {},
      last_pid_update  |-> {},
      temp_handler     |-> TemperatureCommandHandlerNew,
      safety_handler   |-> SafetyCommandHandlerNew,
      artisan_handler  |-> ArtisanCommandHandlerNew ]

IsTemperatureValid(temp) == temp >= MIN_TEMP /\ temp <= MAX_TEMP

\* `self.safety_handler.trigger_emergency(reason)?` leaves the method with
\* the error of trigger_emergency; the statements after it run only if it
\* returned Ok.
EmergencyShutdown(rc) ==
    LET t   == TriggerEmergency(rc.safety_handler)
        rc1 == [rc EXCEPT !.safety_handler = t.h]
    IN  IF t.ret # "Ok"
        THEN Returned(rc1, t.ret)
        ELSE Returned([rc1 EXCEPT !.state = "EmergencyStop",
                                  !.temp_handler = TempDisablePid(@),
                                  !.status.ssr_output = 0,
                                  !.status.pid_enabled = FALSE,
                                  !.status.fault_condition = TRUE],
                      "TemperatureOutOfRange")

UpdateTemperatures(rc, bean_temp, env_temp, current_time) ==
    IF ~IsTemperatureValid(bean_temp) \/ ~IsTemperatureValid(env_temp)
    THEN Returned(rc, "TemperatureOutOfRange")
    ELSE LET rc1 == [rc EXCEPT !.status.bean_temp = bean_temp + BT_THERMOCOUPLE_OFFSET,
                               !.status.env_temp = env_temp + ET_THERMOCOUPLE_OFFSET,
                               !.last_temp_read = {current_time}]
         IN  IF rc1.status.bean_temp >= OVERTEMP_THRESHOLD
             THEN LET e == EmergencyShutdown(rc1)
                  IN  IF e.ret # "Ok" THEN e ELSE Returned(e.rc, "Ok")
             ELSE Returned(rc1, "Ok")

\* after the handler: self.status.fault_condition = is_emergency_active()
MirrorFault(rc) ==
    [rc EXCEPT !.status.fault_condition = IsEmergencyActive(rc.safety_handler)]

\* mutant: the Manual/Artisan handler is asked before the Temperature handler
ProcessCommandManualFirst(rc, cmd, current_time) ==
    IF SafetyCanHandle(cmd)
    THEN LET r == SafetyHandleCommand(rc.safety_handler, cmd, rc.status)
         IN  Returned(MirrorFault([rc EXCEPT !.safety_handler = r.h,
                                             !.status = r.status]), r.ret)
    ELSE IF ArtisanCanHandle(cmd)
    THEN LET r == ArtisanHandleCommand(rc.artisan_handler, cmd, rc.status)
         IN  Returned(MirrorFault([rc EXCEPT !.artisan_handler = r.h,
                                             !.status = r.status]), r.ret)
    ELSE IF TempCanHandle(cmd)
    THEN LET r == TempHandleCommand(rc.temp_handler, cmd, rc.status)
         IN  Returned(MirrorFault([rc EXCEPT !.temp_handler = r.h,
                                             !.status = r.status]), r.ret)
    ELSE IF SystemCanHandle(cmd)
    THEN LET r == SystemHandleCommand("system", cmd, rc.status)
         IN  Returned(MirrorFault([rc EXCEPT !.status = r.status]), r.ret)
    ELSE Returned(rc, "InvalidState")

ProcessCommand(rc, cmd, current_time) ==
    IF SafetyCanHandle(cmd)
    THEN LET r == SafetyHandleCommand(rc.safety_handler, cmd, rc.status)
         IN  Returned(MirrorFault([rc EXCEPT !.safety_handler = r.h,
                                             !.status = r.status]), r.ret)
    ELSE IF TempCanHandle(cmd)
    THEN LET r == TempHandleCommand(rc.temp_handler, cmd, rc.status)
         IN  Returned(MirrorFault([rc EXCEPT !.temp_handler = r.h,
                                             !.status = r.status]), r.ret)
    ELSE IF ArtisanCanHandle(cmd)
    THEN LET r == ArtisanHandleCommand(rc.artisan_handler, cmd, rc.status)
         IN  Returned(MirrorFault([rc EXCEPT !.artisan_handler = r.h,
                                             !.status = r.status]), r.ret)
    ELSE IF SystemCanHandle(cmd)
    THEN LET r == SystemHandleCommand("system", cmd, rc.status)
         IN  Returned(MirrorFault([rc EXCEPT !.status = r.status]), r.ret)
    ELSE Returned(rc, "InvalidState")

\* yields the object and the heater output of this cycle
UpdatePidControl(rc, current_time) ==
    LET should_update ==
            IF rc.last_pid_update # {}
            THEN \E last_update \in rc.last_pid_update :
                     current_time - last_update >= PID_SAMPLE_TIME_MS
            ELSE TRUE
    IN  IF should_update
        THEN LET output == TempGetPidOutput(rc.temp_handler, rc.status.bean_temp)
                 stable == /\ rc.state = "Heating"
                           /\ Abs(rc.status.bean_temp - rc.status.target_temp) < 2
             IN  [rc |-> [rc EXCEPT !.last_pid_update = {current_time},
                                    !.state = IF stable THEN "Stable" ELSE @],
                  output |-> output]
        ELSE [rc |-> rc, output |-> rc.status.ssr_output]

SensorTimedOut(rc, current_time) ==
    \E last_read \in rc.last_temp_read :
        current_time - last_read > TEMP_VALIDITY_TIMEOUT_MS

UpdateControl(rc, current_time) ==
    LET e   == IF SensorTimedOut(rc, current_time)
               THEN EmergencyShutdown(rc)
               ELSE Returned(rc, "Ok")
        rc1 == e.rc
        p   == IF IsEmergencyActive(rc1.safety_handler)
               THEN [rc |-> rc1, output |-> 0]
               ELSE IF rc1.status.artisan_control
               THEN [rc |-> rc1, output |-> rc1.artisan_handler.manual_heater]
               ELSE IF rc1.status.pid_enabled
               THEN UpdatePidControl(rc1, current_time)
               ELSE [rc |-> rc1, output |-> 0]
    IN  IF e.ret # "Ok"
        THEN e
        ELSE Returned([p.rc EXCEPT !.status.ssr_output = Clamp(p.output, 0, 100),
                                   !.status.fan_output = p.rc.artisan_handler.manual_fan,
                                   !.status.state = p.rc.state],
                      "Ok")

EnablePidControl(rc, target_temp) ==
    Returned([rc EXCEPT !.status.artisan_control = FALSE,
                        !.temp_handler = TempEnablePid(TempSetPidTarget(@, target_temp)),
                        !.status.pid_enabled = TRUE,
                        !.status.target_temp = target_temp],
             "Ok")

ProcessArtisanCommand(rc, cmd) ==
    CASE cmd.type = "StartRoast" ->
           LET e == EnablePidControl([rc EXCEPT !.status.artisan_control = TRUE],
                                     DEFAULT_TARGET_TEMP)
           IN  IF e.ret # "Ok" THEN e
               ELSE Returned([e.rc EXCEPT !.temp_handler.output_manager =
                                              EnableContinuousOutput(@)], "Ok")
      [] cmd.type = "SetHeater" ->
           Returned([rc EXCEPT !.artisan_handler =
                                   SetManualValues(@, cmd.arg, @.manual_fan),
                               !.status.artisan_control = TRUE,
                               !.status.pid_enabled = FALSE,
                               !.temp_handler = TempDisablePid(@)], "Ok")
      [] cmd.type = "SetFan" ->
           Returned([rc EXCEPT !.artisan_handler =
                                   SetManualValues(@, @.manual_heater, cmd.arg),
                               !.status.fan_output = cmd.arg], "Ok")
      [] cmd.type = "EmergencyStop" ->
           LET rc1 == [rc EXCEPT !.temp_handler.output_manager =
                                     DisableContinuousOutput(@)]
               t   == TriggerEmergency(rc1.safety_handler)
               rc2 == [rc1 EXCEPT !.safety_handler = t.h]
           IN  IF t.ret # "Ok"
               THEN Returned(rc2, t.ret)
               ELSE Returned([rc2 EXCEPT !.status.fault_condition = TRUE], "Ok")
      [] OTHER -> Returned(rc, "Ok")

GetStatus(rc) == rc.status

IsEmergencyCondition(rc) ==
    IsEmergencyActive(rc.safety_handler) \/ rc.status.fault_condition

\* ------------------------------------------------------------------------
\* hardware/ssr.rs: SsrControl, the heater's solid-state relay
\* ------------------------------------------------------------------------
\* what the heat-detection pin reads: low (heat source present), high, or a
\* failed read
PinReadings == {"Low", "High", "Error"}

\* detect_heat_source: yields the object and the Result
DetectHeatSource(s, reading, current_time) ==
    IF reading = "Error"
    THEN [ssr |-> [s EXCEPT !.hardware_status = "Error"], ret |-> "InputError"]
    ELSE [ssr |-> [s EXCEPT !.hardware_status =
                               IF reading = "Low" THEN "Available" ELSE "NotDetected",
                            !.last_detection_check = {current_time}],
          ret |-> "Ok"]

\* new_with_pwm_and_detection, with a detection pin that can be read
SsrControlNew(reading) ==
    DetectHeatSource([hardware_status |-> "NotDetected", current_duty |-> 0,
                      last_detection_check |-> {}, is_pwm_enabled |-> TRUE],
                     reading, 0).ssr

IsHeatingAvailable(s) == s.hardware_status = "Available"

GetHardwareStatus(s) == s.hardware_status

\* set_percentage: yields the object, the duty in the PWM channel and the
\* Result.  duty is (clamped / 100.0 * 255) as u32; the channel is written
\* (duty / 100) as u8, and keeps its duty when the write fails
SetPercentage(s, duty_written, percentage, pwm_ok) ==
    LET clamped == Clamp(percentage, 0, 100)
        duty == (clamped * 255) \div 100
    IN  IF ~pwm_ok
        THEN [ssr |-> s, pwm |-> duty_written, ret |-> "PwmError"]
        ELSE [ssr |-> [s EXCEPT !.current_duty = duty % 65536],
              pwm |-> (duty \div 100) % 256,
              ret |-> "Ok"]

\* Heater::set_power for SsrControl
SetPower(s, duty_written, duty, pwm_ok) ==
    LET r == SetPercentage(s, duty_written, duty, pwm_ok)
    IN  [r EXCEPT !.ret = IF r.ret = "Ok" THEN "Ok" ELSE "HardwareError"]

\* Heater::get_status for SsrControl: the driver's status in the core's enum
HeaterGetStatus(s) ==
    CASE GetHardwareStatus(s) = "Available"   -> "Available"
      [] GetHardwareStatus(s) = "NotDetected" -> "NotDetected"
      [] GetHardwareStatus(s) = "Error"       -> "Error"

\* ------------------------------------------------------------------------
\* hardware/shared_spi.rs: the SPI bus shared by the two thermocouples.
\* cs[d] is TRUE while device d's chip-select is asserted (driven low);
\* owner is the device whose transaction is running, at position pc; left is
\* the number of bus operations the transaction still has to do; borrowed is
\* TRUE inside the critical section, while the bus is mutably borrowed;
\* result is the Result of the transaction that returned last and user the
\* device that used the bus last
\* ------------------------------------------------------------------------
Devices == {"BT", "ET"}

SpiNew ==
    [cs |-> [d \in Devices |-> FALSE], owner |-> "None", pc |-> "idle", left |-> 0,
     borrowed |-> FALSE, result |-> "Ok", user |-> "None"]

\* SpiDeviceWithCs::transaction: let _ = self.cs.set_low()
SpiSelect(b, d, operations) ==
    [b EXCEPT !.cs[d] = TRUE, !.owner = d, !.pc = "selected", !.left = operations]

\* SharedSpiDevice::transaction enters the critical section and borrows the bus
SpiBorrow(b) == [b EXCEPT !.pc = "operating", !.borrowed = TRUE, !.result = "Ok"]

\* one operation on the bus; a failed one leaves the loop through `?`
SpiOperate(b, ok) ==
    IF ok THEN [b EXCEPT !.left = @ - 1, !.user = b.owner]
    ELSE [b EXCEPT !.left = 0, !.result = "Err", !.user = b.owner]

\* the critical section ends and the borrow is dropped, with Ok or Err
SpiRelease(b) == [b EXCEPT !.pc = "operated", !.borrowed = FALSE]

\* mutant: the chip-select stays asserted when the operations failed
SpiDeselectUnlessFailed(b) ==
    [b EXCEPT !.cs[b.owner] = (b.result # "Ok"), !.owner = "None", !.pc = "idle"]

\* let _ = self.cs.set_high(); result
SpiDeselect(b) == [b EXCEPT !.cs[b.owner] = FALSE, !.owner = "None", !.pc = "idle"]

\* ------------------------------------------------------------------------
\* input/multiplexer.rs: CommandMultiplexer
\* ------------------------------------------------------------------------
IDLE_TIMEOUT_SECS == 60

Channels == {"Usb", "Uart"}

CommandMultiplexerNew == [active_channel |-> "None", last_command_time |-> {}]

\* Duration::as_secs of a duration in milliseconds
AsSecs(ms) == ms \div 1000

\* mutant: a rejected command refreshes the timestamp
OnCommandReceivedRefreshes(m, channel, t) ==
    IF m.active_channel = "None" \/ m.active_channel = channel
    THEN [m |-> [active_channel |-> channel, last_command_time |-> {t}],
          accepted |-> TRUE]
    ELSE [m |-> [m EXCEPT !.last_command_time = {t}], accepted |-> FALSE]

\* yields the multiplexer and whether the command is accepted
OnCommandReceived(m, channel, t) ==
    LET taken == [m |-> [active_channel |-> channel, last_command_time |-> {t}],
                  accepted |-> TRUE]
    IN  IF m.active_channel = "None"
        THEN taken
        ELSE IF m.active_channel = channel
        THEN IF \E last_time \in m.last_command_time :
                    AsSecs(t - last_time) >= IDLE_TIMEOUT_SECS
             THEN taken
             ELSE taken
        ELSE [m |-> m, accepted |-> FALSE]

\* mutant: the channel that sends a command takes the session over
ShouldProcessCommandTakesOver(m, channel, t) ==
    [m |-> [active_channel |-> channel, last_command_time |-> {t}],
     accepted |-> TRUE]

ShouldProcessCommand(m, channel, t) == OnCommandReceived(m, channel, t)

ShouldWriteTo(m, channel) == m.active_channel = channel

GetActiveChannel(m) == m.active_channel

IsIdle(m, t) ==
    IF m.last_command_time # {}
    THEN \E last_time \in m.last_command_time :
             AsSecs(t - last_time) >= IDLE_TIMEOUT_SECS
    ELSE TRUE

\* mutant: reset() forgets the timestamp but keeps the active channel
MuxResetKeepsChannel(m) == [m EXCEPT !.last_command_time = {}]

MuxReset(m) == [active_channel |-> "None", last_command_time |-> {}]

\* ------------------------------------------------------------------------
\* The two channels between the tasks, and the lines they carry
\* ------------------------------------------------------------------------
ARTISAN_COMMAND_CHANNEL_SIZE == 8
ARTISAN_OUTPUT_CHANNEL_SIZE == 16

\* a try_send that puts the item at the head of the channel
TrySendFirst(q, item, capacity) == IF Len(q) < capacity THEN <<item>> \o q ELSE q

\* Channel::try_send: the item is dropped when the channel is full
TrySend(q, item, capacity) == IF Len(q) < capacity THEN Append(q, item) ELSE q

\* output/artisan.rs: format_read_response_full
FormatReadResponseFull(status) ==
    [kind |-> "read", et |-> status.env_temp, bt |-> status.bean_temp,
     fan |-> status.fan_output, heater |-> status.ssr_output]

\* output/artisan.rs: the telemetry line (time and ROR fields left out)
FormatTelemetry(status) ==
    [kind |-> "telemetry", et |-> status.env_temp, bt |-> status.bean_temp,
     gas |-> status.ssr_output]

ErrLine(code, message) == [kind |-> "err", code |-> code, message |-> message]

\* input/parser.rs: ParseError::code and ParseError::message
ParseErrorCode(error) ==
    CASE error = "UnknownCommand" -> "unknown_command"
      [] error = "InvalidValue"   -> "invalid_value"
      [] error = "OutOfRange"     -> "out_of_range"
      [] error = "EmptyCommand"   -> "invalid_value"

ParseErrorMessage(error) ==
    CASE error = "UnknownCommand" -> "unknown_command"
      [] error = "InvalidValue"   -> "invalid_value"
      [] error = "OutOfRange"     -> "out_of_range"
      [] error = "EmptyCommand"   -> "empty_command"

\* RoasterError::message_token
MessageToken(error) ==
    CASE error = "TemperatureOutOfRange" -> "temperature_out_of_range"
      [] error = "SensorFault"           -> "sensor_fault"
      [] error = "InvalidState"          -> "invalid_state"
      [] error = "PidError"              -> "pid_error"
      [] error = "HardwareError"         -> "hardware_error"
      [] error = "EmergencyShutdown"     -> "emergency_shutdown"

\* ------------------------------------------------------------------------
\* The core driven through its public operations
\* ------------------------------------------------------------------------
Cmd(type, arg) == [type |-> type, arg |-> arg]

RoasterCommands ==
    {Cmd("StartRoast", RoastTarget), Cmd("StartRoast", DEFAULT_TARGET_TEMP),
     Cmd("StopRoast", 0),
     Cmd("SetTemperature", RoastTarget), Cmd("EmergencyStop", 0),
     Cmd("ArtisanEmergencyStop", 0), Cmd("Reset", 0),
     Cmd("IncreaseHeater", 0), Cmd("DecreaseHeater", 0)}
    \cup {Cmd("SetHeaterManual", v) : v \in HeaterValues}
    \cup {Cmd("SetFanManual", v) : v \in FanValues}

ArtisanCommands ==
    {Cmd("StartRoast", 0), Cmd("EmergencyStop", 0), Cmd("ReadStatus", 0)}
    \cup {Cmd("SetHeater", v) : v \in HeaterValues}
    \cup {Cmd("SetFan", v) : v \in FanValues}

\* ------------------------------------------------------------------------
\* input/parser.rs. A line is the sequence of its whitespace-separated
\* tokens (of the two parts around ';' when it has one); a token is a word
\* or a decimal numeral, which stands for the number it denotes
\* ------------------------------------------------------------------------
Word(text) == [text |-> text, num |-> FALSE, val |-> 0]
Numeral(val) == [text |-> "", num |-> TRUE, val |-> val]
Line(semi, parts) == [semi |-> semi, parts |-> parts]

ParseOk(cmd) == [ok |-> TRUE, cmd |-> cmd, error |-> "None"]
ParseErr(error) == [ok |-> FALSE, cmd |-> Cmd("None", 0), error |-> error]

\* str::parse::<u8> and str::parse::<u16>
ParsesAs(token, max) == token.num /\ token.val >= 0 /\ token.val <= max

ParsePercentage(token) ==
    IF ~ParsesAs(token, 255) THEN ParseErr("InvalidValue")
    ELSE IF token.val <= 100 THEN ParseOk(Cmd("Percentage", token.val))
    ELSE ParseErr("OutOfRange")

\* parse_ot2_value: any number is accepted and clamped to 0..100
ParseOt2Value(token) ==
    IF ~token.num THEN ParseErr("InvalidValue")
    ELSE ParseOk(Cmd("SetFanSpeed", Clamp(token.val, 0, 100)))

WithValue(type, p) == IF p.ok THEN ParseOk(Cmd(type, p.cmd.arg)) ELSE p

ParseArtisanCommand(line) ==
    LET parts == line.parts
        first == IF parts = <<>> THEN "" ELSE parts[1].text
    IN  IF parts = <<>> THEN ParseErr("EmptyCommand")
        ELSE IF line.semi THEN
            CASE first = "CHAN" /\ Len(parts) = 2 ->
                   IF ParsesAs(parts[2], 65535)
                   THEN ParseOk(Cmd("Chan", parts[2].val))
                   ELSE ParseErr("InvalidValue")
              [] first = "UNITS" /\ Len(parts) = 2 ->
                   IF parts[2].text \in {"C", "c"} THEN ParseOk(Cmd("Units", 0))
                   ELSE IF parts[2].text \in {"F", "f"} THEN ParseOk(Cmd("Units", 1))
                   ELSE ParseErr("InvalidValue")
              [] first = "FILT" /\ Len(parts) = 2 ->
                   IF ParsesAs(parts[2], 255)
                   THEN ParseOk(Cmd("Filt", parts[2].val))
                   ELSE ParseErr("InvalidValue")
              [] first \in {"CHAN", "UNITS", "FILT"} /\ Len(parts) # 2 ->
                   ParseErr("InvalidValue")
              [] OTHER -> ParseErr("UnknownCommand")
        ELSE
            CASE Len(parts) = 1 /\ first = "READ" -> ParseOk(Cmd("ReadStatus", 0))
              [] Len(parts) = 1 /\ first = "START" -> ParseOk(Cmd("StartRoast", 0))
              [] Len(parts) = 2 /\ first = "OT1" ->
                   WithValue("SetHeater", ParsePercentage(parts[2]))
              [] Len(parts) = 2 /\ first = "IO3" ->
                   WithValue("SetFan", ParsePercentage(parts[2]))
              [] Len(parts) = 1 /\ first \in {"OT2", "ot2"} ->
                   ParseOk(Cmd("SetFanSpeed", 0))
              [] Len(parts) = 2 /\ first \in {"OT2", "ot2"} ->
                   ParseOt2Value(parts[2])
              [] Len(parts) = 1 /\ first = "STOP" -> ParseOk(Cmd("EmergencyStop", 0))
              [] Len(parts) = 1 /\ first \in {"UP", "up"} ->
                   ParseOk(Cmd("IncreaseHeater", 0))
              [] Len(parts) = 1 /\ first \in {"DOWN", "down"} ->
                   ParseOk(Cmd("DecreaseHeater", 0))
              [] Len(parts) = 1 /\ first \in {"OT1", "IO3"} -> ParseErr("InvalidValue")
              [] OTHER -> ParseErr("UnknownCommand")

\* handle_complete_command, the parse of the bytes before the CR
ParseResult(line) ==
    IF line.parts = <<>> THEN ParseErr("EmptyCommand") ELSE ParseArtisanCommand(line)

\* the lines a host sends: the five commands process_artisan_command
\* handles, and one line for each way the parser rejects a line
GoodLines ==
    {Line(FALSE, <<Word("READ")>>), Line(FALSE, <<Word("START")>>),
     Line(FALSE, <<Word("STOP")>>),
     Line(FALSE, <<Word("OT1"), Numeral(50)>>),
     Line(FALSE, <<Word("IO3"), Numeral(60)>>)}

BadLines ==
    {Line(FALSE, <<>>), Line(FALSE, <<Word("BOGUS")>>),
     Line(FALSE, <<Word("OT1"), Numeral(150)>>),
     Line(FALSE, <<Word("OT1"), Word("abc")>>)}

Lines == GoodLines \cup BadLines

Received(channel, line) == [channel |-> channel, line |-> line]

\* what the host has sent on a channel: the bytes of its current line,
\* whether the line's CR went out, and the complete lines that went out
\* before it in the same read
Sent(bytes, cr) == [bytes |-> bytes, cr |-> cr, earlier |-> <<>>]
NothingSent == [channel \in Channels |-> Sent(<<>>, TRUE)]

MuxCalled(op, channel, accepted, before, prev) ==
    [op |-> op, channel |-> channel, accepted |-> accepted, before |-> before,
     at |-> now, prev |-> prev]

Called(op, cmd, r) ==
    [op |-> op, cmd |-> cmd, ret |-> r.ret, at |-> now,
     flag |-> IsEmergencyActive(roaster.safety_handler)]

Init ==
    /\ roaster = RoasterControlNew
    /\ now = 0
    /\ lastOp = [op |-> "new", cmd |-> Cmd("None", 0), ret |-> "Ok", at |-> 0,
                 flag |-> FALSE]
    /\ calls = 0
    /\ mux = CommandMultiplexerNew
    /\ cmdq = <<>>
    /\ outq = <<>>
    /\ wire = [ch \in Channels |-> <<>>]
    /\ panicked = FALSE
    /\ ssr = SsrControlNew("Low")
    /\ pwm = 0
    /\ ssrOp = [op |-> "new", percentage |-> 0, ret |-> "Ok"]
    /\ muxOp = MuxCalled("new", "None", TRUE, CommandMultiplexerNew, "new")
    /\ rx = Received("None", Line(FALSE, <<>>))
    /\ sent = NothingSent
    /\ spi = SpiNew

\* one more public operation may be called
Call ==
    /\ calls < MaxCalls
    /\ calls' = calls + 1
    /\ UNCHANGED <<now, ioVars>>

CallProcessCommand ==
    \E cmd \in RoasterCommands :
        LET r == ProcessCommand(roaster, cmd, now)
        IN  /\ Call
            /\ roaster' = r.rc
            /\ lastOp' = Called("process_command", cmd, r)

CallProcessArtisanCommand ==
    \E cmd \in ArtisanCommands :
        LET r == ProcessArtisanCommand(roaster, cmd)
        IN  /\ Call
            /\ roaster' = r.rc
            /\ lastOp' = Called("process_artisan_command", cmd, r)

CallUpdateTemperatures ==
    \E bean_temp \in BeanTemps :
        LET r == UpdateTemperatures(roaster, bean_temp, EnvTemp, now)
        IN  /\ Call
            /\ roaster' = r.rc
            /\ lastOp' = Called("update_temperatures", Cmd("Temps", bean_temp), r)

CallUpdateControl ==
    LET r == UpdateControl(roaster, now)
    IN  /\ Call
        /\ roaster' = r.rc
        /\ lastOp' = Called("update_control", Cmd("None", 0), r)

\* the clock advances between two calls
Tick ==
    \E t \in TimePoints :
        /\ t > now
        /\ t <= MaxTime
        /\ now' = t
        /\ UNCHANGED <<roaster, lastOp, calls, ioVars>>

Next ==
    \/ CallProcessCommand
    \/ CallProcessArtisanCommand
    \/ CallUpdateTemperatures
    \/ CallUpdateControl
    \/ Tick

Spec == Init /\ [][Next]_vars

\* ------------------------------------------------------------------------
\* The firmware's tasks: the two serial readers, the control loop and the
\* output task, sharing the core, the multiplexer and the two channels
\* ------------------------------------------------------------------------
MaxLoopSteps == 4

LoopDelays == {PID_SAMPLE_TIME_MS, MaxTime}

\* a thermocouple reading: a temperature, or a failed read
SensorReadings ==
    {[ok |-> TRUE, temp |-> t] : t \in BeanTemps} \cup {[ok |-> FALSE, temp |-> 0]}

\* RoasterControl::read_sensors: both thermocouples are read and handed to
\* update_temperatures; a failed read is reported and changes nothing
ReadSensors(rc, reading, t) ==
    IF reading.ok
    THEN UpdateTemperatures(rc, reading.temp, EnvTemp, t)
    ELSE Returned(rc, "SensorFault")

\* a send_parse_error that enqueues its line twice
SendParseErrorTwice(m, q, channel, error) ==
    IF ShouldWriteTo(m, channel)
    THEN TrySend(TrySend(q, ErrLine(ParseErrorCode(error), ParseErrorMessage(error)),
                         ARTISAN_OUTPUT_CHANNEL_SIZE),
                 ErrLine(ParseErrorCode(error), ParseErrorMessage(error)),
                 ARTISAN_OUTPUT_CHANNEL_SIZE)
    ELSE q

\* send_parse_error: the line is enqueued only for the active channel
SendParseError(m, q, channel, error) ==
    IF ShouldWriteTo(m, channel)
    THEN TrySend(q, ErrLine(ParseErrorCode(error), ParseErrorMessage(error)),
                 ARTISAN_OUTPUT_CHANNEL_SIZE)
    ELSE q

\* a send_handler_error that sends nothing
SendHandlerErrorNever(q, error) == q

\* send_handler_error
SendHandlerError(q, error) ==
    TrySend(q, ErrLine("handler_failed", MessageToken(error)),
            ARTISAN_OUTPUT_CHANNEL_SIZE)

LoopStep ==
    /\ ~panicked
    /\ calls < MaxLoopSteps
    /\ calls' = calls + 1

\* handle_complete_command, the line parsed to a command: the multiplexer
\* decides, an accepted command is enqueued; when the command channel is
\* full, send_parse_error borrows the multiplexer a second time while the
\* first borrow is held, and the task panics
HandleCommand(channel, line) ==
    LET parsed == ParseResult(line)
        d == ShouldProcessCommand(mux, channel, now)
    IN  /\ parsed.ok
        /\ mux' = d.m
        /\ cmdq' = IF d.accepted
                   THEN TrySend(cmdq, parsed.cmd, ARTISAN_COMMAND_CHANNEL_SIZE)
                   ELSE cmdq
        /\ panicked' = (d.accepted /\ Len(cmdq) >= ARTISAN_COMMAND_CHANNEL_SIZE)
        /\ muxOp' = MuxCalled("should_process_command", channel, d.accepted,
                              mux, muxOp.op)
        /\ rx' = Received(channel, line)
        /\ UNCHANGED <<roaster, now, lastOp, outq, wire, hwVars>>

\* handle_complete_command, the line rejected by the parser
HandleBadLine(channel, line) ==
    LET parsed == ParseResult(line)
    IN  /\ ~parsed.ok
        /\ outq' = SendParseError(mux, outq, channel, parsed.error)
        /\ muxOp' = MuxCalled("should_write_to", channel,
                              ShouldWriteTo(mux, channel), mux, muxOp.op)
        /\ rx' = Received(channel, line)
        /\ UNCHANGED <<roaster, now, lastOp, mux, cmdq, wire, panicked, hwVars>>

ReceiveCommand ==
    \E channel \in Channels, line \in Lines :
        LoopStep /\ HandleCommand(channel, line) /\ UNCHANGED sent

ReceiveBadLine ==
    \E channel \in Channels, line \in Lines :
        LoopStep /\ HandleBadLine(channel, line) /\ UNCHANGED sent

\* one iteration of control_loop_task and the 100 ms (or longer) wait
Cycle(reading, delay) ==
    LET current_time == now
        received == cmdq # <<>>
        command == IF received THEN Head(cmdq) ELSE Cmd("None", 0)
        p == IF received
             THEN ProcessArtisanCommand(roaster, command)
             ELSE Returned(roaster, "Ok")
        out1 == IF ~received THEN outq
                ELSE IF p.ret # "Ok" THEN SendHandlerError(outq, p.ret)
                ELSE IF command.type = "ReadStatus"
                     THEN TrySend(outq, FormatReadResponseFull(GetStatus(p.rc)),
                                  ARTISAN_OUTPUT_CHANNEL_SIZE)
                     ELSE outq
        s == ReadSensors(p.rc, reading, current_time)
        u == UpdateControl(s.rc, current_time)
        out2 == IF IsContinuousEnabled(u.rc.temp_handler.output_manager)
                THEN TrySend(out1, FormatTelemetry(GetStatus(u.rc)),
                             ARTISAN_OUTPUT_CHANNEL_SIZE)
                ELSE out1
    IN  /\ roaster' = u.rc
        /\ cmdq' = IF received THEN Tail(cmdq) ELSE cmdq
        /\ outq' = out2
        /\ lastOp' = Called("control_loop", command, u)
        /\ now' = now + delay
        /\ UNCHANGED <<mux, wire, panicked, hwVars, muxOp, rx, sent>>

ControlLoopIteration ==
    \E reading \in SensorReadings, delay \in LoopDelays :
        LoopStep /\ Cycle(reading, delay)

\* one iteration of dual_output_task: a line goes to the active channel, or
\* is discarded when there is none
DualOutput ==
    /\ ~panicked
    /\ outq # <<>>
    /\ outq' = Tail(outq)
    /\ wire' = IF GetActiveChannel(mux) \in Channels
               THEN [wire EXCEPT ![GetActiveChannel(mux)] = Append(@, Head(outq))]
               ELSE wire
    /\ UNCHANGED <<roaster, now, lastOp, calls, mux, cmdq, panicked, hwVars, muxOp,
                   rx, sent>>

\* one iteration of usb_writer_task, which receives from the same output
\* channel and writes every line it gets to the USB port
UsbWriter ==
    /\ ~panicked
    /\ outq # <<>>
    /\ outq' = Tail(outq)
    /\ wire' = [wire EXCEPT !["Usb"] = Append(@, Head(outq))]
    /\ UNCHANGED <<roaster, now, lastOp, calls, mux, cmdq, panicked, hwVars, muxOp,
                   rx, sent>>

NextLoop ==
    \/ ReceiveCommand
    \/ ReceiveBadLine
    \/ ControlLoopIteration
    \/ DualOutput
    \/ UsbWriter

SpecLoop == Init /\ [][NextLoop]_vars

\* ------------------------------------------------------------------------
\* A host that sends lines faster than the control task and the output
\* tasks take them: the reader tasks run while the other tasks wait
\* ------------------------------------------------------------------------
MaxBurst == 18

\* the host's first lines are any of Lines, the rest repeat two of them
MaxAnyLines == 2

BurstLines == {Line(FALSE, <<Word("READ")>>), Line(FALSE, <<Word("BOGUS")>>)}

BurstStep ==
    /\ ~panicked
    /\ calls < MaxBurst
    /\ calls' = calls + 1

BurstCommand ==
    \E channel \in Channels,
       line \in IF calls < MaxAnyLines THEN Lines ELSE BurstLines :
        BurstStep /\ HandleCommand(channel, line) /\ UNCHANGED sent

BurstBadLine ==
    \E channel \in Channels,
       line \in IF calls < MaxAnyLines THEN Lines ELSE BurstLines :
        BurstStep /\ HandleBadLine(channel, line) /\ UNCHANGED sent

NextBurst ==
    \/ BurstCommand
    \/ BurstBadLine

SpecBurst == Init /\ [][NextBurst]_vars

\* ------------------------------------------------------------------------
\* A host that does not read its serial port: the output tasks wait in
\* write_bytes, the control task and the reader tasks go on.  The host's
\* first lines are START or STOP, the rest are STOP.
\* ------------------------------------------------------------------------
MaxStalled == 19

MaxStartLines == 1

StalledLines ==
    IF calls < MaxStartLines
    THEN {Line(FALSE, <<Word("START")>>), Line(FALSE, <<Word("STOP")>>)}
    ELSE {Line(FALSE, <<Word("STOP")>>)}

StalledStep ==
    /\ ~panicked
    /\ calls < MaxStalled
    /\ calls' = calls + 1

StalledCommand ==
    \E channel \in Channels, line \in StalledLines :
        StalledStep /\ HandleCommand(channel, line) /\ UNCHANGED sent

StalledCycle ==
    StalledStep /\ Cycle([ok |-> TRUE, temp |-> EnvTemp], PID_SAMPLE_TIME_MS)

NextStalled ==
    \/ StalledCommand
    \/ StalledCycle

SpecStalled == Init /\ [][NextStalled]_vars

\* ------------------------------------------------------------------------
\* The reader tasks fed byte by byte: the host sends its lines in pieces,
\* one piece for each read of the serial port
\* ------------------------------------------------------------------------
MaxReads == 4

CR == "\r"

\* the lines the host sends (without their CR): two commands, an unknown
\* word and the empty line; none has whitespace, a digit or a ';'
HostTexts == {<<"R", "E", "A", "D">>, <<"U", "P">>, <<"N", "O">>, <<>>}

IsPrefix(s, t) == Len(s) <= Len(t) /\ SubSeq(t, 1, Len(s)) = s

HostPieces ==
    {<<>>} \cup UNION {{SubSeq(t, i, j) : i \in 1..Len(t), j \in 1..Len(t)} :
                        t \in HostTexts}

\* what the host may send next on a channel: bytes that continue its
\* current line, and the CR only when the line is complete
HostData(channel) ==
    LET before == IF sent[channel].cr THEN <<>> ELSE sent[channel].bytes
    IN  {d \in [piece : HostPieces, cr : BOOLEAN] :
            /\ \E t \in HostTexts : IsPrefix(before \o d.piece, t)
            /\ d.cr => before \o d.piece \in HostTexts
            /\ ~d.cr => d.piece # <<>>}

Bytes(d) == IF d.cr THEN Append(d.piece, CR) ELSE d.piece

HostSends(channel, d) ==
    sent' = [sent EXCEPT ![channel] =
                Sent((IF sent[channel].cr THEN <<>> ELSE sent[channel].bytes)
                        \o d.piece, d.cr)]

HasCr(data) == \E i \in 1..Len(data) : data[i] = CR

\* process_command_data and process_usb_command_data: the bytes pushed to
\* the local buffer `command` before the first CR of this read
CommandBytes(data) ==
    LET stop == IF HasCr(data)
                THEN CHOOSE i \in 1..Len(data) :
                        data[i] = CR /\ \A j \in 1..(i - 1) : data[j] # CR
                ELSE Len(data) + 1
    IN  SubSeq(data, 1, stop - 1)

RECURSIVE Utf8(_)
Utf8(bytes) == IF bytes = <<>> THEN "" ELSE Head(bytes) \o Utf8(Tail(bytes))

\* core::str::from_utf8 and the parser's split of a text without whitespace
LineOf(bytes) ==
    IF bytes = <<>> THEN Line(FALSE, <<>>) ELSE Line(FALSE, <<Word(Utf8(bytes))>>)

ReadStep ==
    /\ ~panicked
    /\ calls < MaxReads
    /\ calls' = calls + 1

\* a read whose CR ends a buffer the parser accepts
ReadCommand ==
    \E channel \in Channels :
        \E d \in HostData(channel) :
            /\ ReadStep
            /\ HasCr(Bytes(d))
            /\ HandleCommand(channel, LineOf(CommandBytes(Bytes(d))))
            /\ HostSends(channel, d)

\* a read whose CR ends a buffer the parser rejects
ReadBadLine ==
    \E channel \in Channels :
        \E d \in HostData(channel) :
            /\ ReadStep
            /\ HasCr(Bytes(d))
            /\ HandleBadLine(channel, LineOf(CommandBytes(Bytes(d))))
            /\ HostSends(channel, d)

\* a read with no CR: the function returns and its buffer is dropped
ReadPartial ==
    \E channel \in Channels :
        \E d \in HostData(channel) :
            /\ ReadStep
            /\ ~HasCr(Bytes(d))
            /\ HostSends(channel, d)
            /\ UNCHANGED <<roaster, now, lastOp, mux, cmdq, outq, wire, panicked,
                           hwVars, muxOp, rx>>

\* a read that returns two complete lines of the host at once
TwoLines(first, second) == Append(first, CR) \o Append(second, CR)

HostSendsTwo(channel, first, second) ==
    sent' = [sent EXCEPT ![channel] =
                [Sent(second, TRUE) EXCEPT !.earlier = <<first>>]]

ReadTwoLinesCommand ==
    \E channel \in Channels, first \in HostTexts, second \in HostTexts :
        /\ ReadStep
        /\ sent[channel].cr
        /\ HandleCommand(channel, LineOf(CommandBytes(TwoLines(first, second))))
        /\ HostSendsTwo(channel, first, second)

ReadTwoLinesBadLine ==
    \E channel \in Channels, first \in HostTexts, second \in HostTexts :
        /\ ReadStep
        /\ sent[channel].cr
        /\ HandleBadLine(channel, LineOf(CommandBytes(TwoLines(first, second))))
        /\ HostSendsTwo(channel, first, second)

NextReads ==
    \/ ReadCommand
    \/ ReadBadLine
    \/ ReadPartial
    \/ ReadTwoLinesCommand
    \/ ReadTwoLinesBadLine

SpecReads == Init /\ [][NextReads]_vars

\* ------------------------------------------------------------------------
\* The heater stepped up and down from every manual setting
\* ------------------------------------------------------------------------
MaxHeaterCalls == 3

HeaterStartValues == 0..100

HeaterCall(cmd) ==
    LET r == ProcessCommand(roaster, cmd, now)
    IN  /\ calls < MaxHeaterCalls
        /\ calls' = calls + 1
        /\ roaster' = r.rc
        /\ lastOp' = Called("process_command", cmd, r)
        /\ UNCHANGED <<now, ioVars>>

CallSetHeaterManual ==
    \E value \in HeaterStartValues : HeaterCall(Cmd("SetHeaterManual", value))

CallIncreaseHeater == HeaterCall(Cmd("IncreaseHeater", 0))

CallDecreaseHeater == HeaterCall(Cmd("DecreaseHeater", 0))

NextHeater ==
    \/ CallSetHeaterManual
    \/ CallIncreaseHeater
    \/ CallDecreaseHeater

SpecHeater == Init /\ [][NextHeater]_vars

\* ------------------------------------------------------------------------
\* The heater's relay driven through its public operations
\* ------------------------------------------------------------------------
\* powers handed to set_percentage (one above 100)
Percentages == {0, 30, 40, 50, 100, 150}

InitSsr ==
    /\ roaster = RoasterControlNew
    /\ now = 0
    /\ lastOp = [op |-> "new", cmd |-> Cmd("None", 0), ret |-> "Ok", at |-> 0,
                 flag |-> FALSE]
    /\ calls = 0
    /\ mux = CommandMultiplexerNew
    /\ cmdq = <<>>
    /\ outq = <<>>
    /\ wire = [ch \in Channels |-> <<>>]
    /\ panicked = FALSE
    /\ \E reading \in {"Low", "High"} : ssr = SsrControlNew(reading)
    /\ pwm = 0
    /\ ssrOp = [op |-> "new", percentage |-> 0, ret |-> "Ok"]
    /\ muxOp = MuxCalled("new", "None", TRUE, CommandMultiplexerNew, "new")
    /\ rx = Received("None", Line(FALSE, <<>>))
    /\ sent = NothingSent
    /\ spi = SpiNew

SsrUnchanged ==
    UNCHANGED <<roaster, now, lastOp, calls, mux, cmdq, outq, wire, panicked, muxOp,
                rx, sent, spi>>

CallSetPercentage ==
    \E percentage \in Percentages, pwm_ok \in BOOLEAN :
        LET r == SetPercentage(ssr, pwm, percentage, pwm_ok)
        IN  /\ ssr' = r.ssr
            /\ pwm' = r.pwm
            /\ ssrOp' = [op |-> "set_percentage", percentage |-> percentage,
                         ret |-> r.ret]
            /\ SsrUnchanged

\* periodic_check, when the check is due
CallDetectHeatSource ==
    \E reading \in PinReadings, current_time \in TimePoints :
        LET r == DetectHeatSource(ssr, reading, current_time)
        IN  /\ ssr' = r.ssr
            /\ ssrOp' = [op |-> "detect_heat_source", percentage |-> 0,
                         ret |-> r.ret]
            /\ UNCHANGED pwm
            /\ SsrUnchanged

NextSsr ==
    \/ CallSetPercentage
    \/ CallDetectHeatSource

SpecSsr == InitSsr /\ [][NextSsr]_vars

\* ------------------------------------------------------------------------
\* The thermocouples read over the shared bus.  Both sensors belong to the
\* core and are read by the control task alone, in a synchronous call, so a
\* transaction begins only when none is running
\* ------------------------------------------------------------------------
MaxTransactions == 6

\* Max31856: a transaction is one write, or a write and a read
TransactionLengths == {1, 2}

SpiUnchanged ==
    UNCHANGED <<roaster, now, lastOp, mux, cmdq, outq, wire, panicked, ssr, pwm,
                ssrOp, muxOp, rx, sent>>

BeginTransaction ==
    \E d \in Devices, operations \in TransactionLengths :
        /\ spi.pc = "idle"
        /\ calls < MaxTransactions
        /\ calls' = calls + 1
        /\ spi' = SpiSelect(spi, d, operations)
        /\ SpiUnchanged

BorrowBus ==
    /\ spi.pc = "selected"
    /\ spi' = SpiBorrow(spi)
    /\ UNCHANGED calls
    /\ SpiUnchanged

BusOperation ==
    \E ok \in BOOLEAN :
        /\ spi.pc = "operating"
        /\ spi.left > 0
        /\ spi' = SpiOperate(spi, ok)
        /\ UNCHANGED calls
        /\ SpiUnchanged

ReleaseBus ==
    /\ spi.pc = "operating"
    /\ spi.left = 0
    /\ spi' = SpiRelease(spi)
    /\ UNCHANGED calls
    /\ SpiUnchanged

EndTransaction ==
    /\ spi.pc = "operated"
    /\ spi' = SpiDeselect(spi)
    /\ UNCHANGED calls
    /\ SpiUnchanged

NextSpi ==
    \/ BeginTransaction
    \/ BorrowBus
    \/ BusOperation
    \/ ReleaseBus
    \/ EndTransaction

SpecSpi == Init /\ [][NextSpi]_vars

\* ------------------------------------------------------------------------
\* The multiplexer driven through its public operations
\* ------------------------------------------------------------------------
\* last instant the multiplexer's clock may reach (ms)
MaxMuxTime == 121000

\* the instants at which the multiplexer is called: a second after the
\* start, a millisecond before the idle timeout, the idle timeout, and the
\* end of the run
MuxTimePoints ==
    {0, 1000, IDLE_TIMEOUT_SECS * 1000 - 1, IDLE_TIMEOUT_SECS * 1000, MaxMuxTime}

MuxUnchanged ==
    UNCHANGED <<roaster, lastOp, calls, cmdq, outq, wire, panicked, hwVars, rx,
                sent>>

CallOnCommandReceived ==
    \E channel \in Channels :
        LET d == OnCommandReceived(mux, channel, now)
        IN  /\ mux' = d.m
            /\ muxOp' = MuxCalled("on_command_received", channel, d.accepted,
                                  mux, muxOp.op)
            /\ UNCHANGED now
            /\ MuxUnchanged

CallMuxReset ==
    /\ mux' = MuxReset(mux)
    /\ muxOp' = MuxCalled("reset", "None", TRUE, mux, muxOp.op)
    /\ UNCHANGED now
    /\ MuxUnchanged

MuxTick ==
    \E t \in MuxTimePoints :
        /\ t > now
        /\ t <= MaxMuxTime
        /\ now' = t
        /\ UNCHANGED <<mux, muxOp>>
        /\ MuxUnchanged

NextMux ==
    \/ CallOnCommandReceived
    \/ CallMuxReset
    \/ MuxTick

SpecMux == Init /\ [][NextMux]_vars

TypeOK ==
    /\ roaster.status.pid_enabled \in BOOLEAN
    /\ roaster.status.artisan_control \in BOOLEAN
    /\ roaster.status.fault_condition \in BOOLEAN
    /\ roaster.last_temp_read \subseteq Nat
    /\ roaster.last_pid_update \subseteq Nat
    /\ now \in Nat
    /\ calls \in Nat
    /\ Len(cmdq) <= ARTISAN_COMMAND_CHANNEL_SIZE
    /\ Len(outq) <= ARTISAN_OUTPUT_CHANNEL_SIZE
    /\ panicked \in BOOLEAN
    /\ rx.channel \in Channels \cup {"None"}
    /\ rx.line \in Lines \cup {Line(FALSE, <<>>)}

\* ------------------------------------------------------------------------
\* Properties of the core
\* ------------------------------------------------------------------------
Latched == IsEmergencyActive(roaster.safety_handler)

IsCommand(type) == lastOp.op = "process_command" /\ lastOp.cmd.type = type

\* C1: after every public core operation, fault_condition implies
\* ssr_output = 0 and pid_enabled = false.
FaultForcesHeaterOff ==
    roaster.status.fault_condition =>
        roaster.status.ssr_output = 0 /\ ~roaster.status.pid_enabled

\* C2: once the emergency latch is set, no command other than Reset, no
\* temperature update and no control cycle clears it (nor the
\* fault_condition that mirrors it).
LatchStaysSet ==
    [][ ~(lastOp'.op = "process_command" /\ lastOp'.cmd.type = "Reset") =>
            /\ Latched => Latched'
            /\ roaster.status.fault_condition => roaster'.status.fault_condition
      ]_vars

\* the latch was set, a manual heater command was then processed and
\* accepted, and the latch is still set
LatchHeldAcrossCommand ==
    /\ lastOp.flag
    /\ IsCommand("SetHeaterManual")
    /\ lastOp.ret = "Ok"
    /\ Latched
    /\ roaster.status.fault_condition

\* C3: a temperature update with a valid bean_temp >= OVERTEMP_THRESHOLD
\* performs the emergency shutdown (state EmergencyStop, ssr_output 0, PID
\* disabled, fault latched) and returns TemperatureOutOfRange.
OvertempShutsDown ==
    (/\ lastOp.op = "update_temperatures"
     /\ lastOp.cmd.arg >= OVERTEMP_THRESHOLD
     /\ IsTemperatureValid(lastOp.cmd.arg))
    => /\ roaster.state = "EmergencyStop"
       /\ roaster.status.ssr_output = 0
       /\ ~roaster.status.pid_enabled
       /\ ~roaster.temp_handler.pid_controller.enabled
       /\ roaster.status.fault_condition
       /\ Latched
       /\ lastOp.ret = "TemperatureOutOfRange"

\* C4: a control cycle run TEMP_VALIDITY_TIMEOUT_MS or more after the last
\* temperature reading performs the emergency shutdown and ends with
\* TemperatureOutOfRange.
SensorTimeoutShutsDown ==
    (/\ lastOp.op = "update_control"
     /\ \E last_read \in roaster.last_temp_read :
            lastOp.at - last_read >= TEMP_VALIDITY_TIMEOUT_MS)
    => /\ roaster.state = "EmergencyStop"
       /\ roaster.status.ssr_output = 0
       /\ roaster.status.fault_condition
       /\ Latched
       /\ lastOp.ret = "TemperatureOutOfRange"

\* C5: a control cycle that starts with the emergency latch set leaves the
\* heater output at 0, whatever manual heater command was accepted before.
LatchedCycleHeaterOff ==
    (lastOp.op = "update_control" /\ lastOp.flag) =>
        roaster.status.ssr_output = 0

\* C6: Reset applied to the latched (faulted) core yields the fresh default
\* status in state Idle with the latch cleared.
ResetClearsFault ==
    (IsCommand("Reset") /\ lastOp.flag) =>
        /\ roaster.status = SystemStatusDefault
        /\ roaster.state = "Idle"
        /\ ~Latched

\* C7: while the emergency latch is set, the reported fan_output is 100.
LatchedFanFull ==
    Latched => roaster.status.fan_output = 100

\* C8: while the emergency latch is set the control loop enqueues no
\* telemetry line, whichever path set the latch; only READ responses and
\* ERR lines are added to the output channel.
NoTelemetryWhileLatched ==
    [][ (Latched /\ Len(outq') > Len(outq)) =>
            \A i \in (Len(outq) + 1)..Len(outq') : outq'[i].kind # "telemetry"
      ]_vars

\* C9: pid_enabled and artisan_control are never both true.
PidXorManual ==
    ~(roaster.status.pid_enabled /\ roaster.status.artisan_control)

\* a roast was started on a core that had been under manual control: the
\* PID is now enabled and the manual flag is cleared
StartAfterManual ==
    /\ lastOp.cmd.type = "StartRoast"
    /\ roaster.artisan_handler.manual_heater > 0
    /\ roaster.status.pid_enabled
    /\ ~roaster.status.artisan_control

\* C10: ssr_output and fan_output stay within 0..100 after every public
\* core operation, for every argument value.
OutputsInRange ==
    /\ roaster.status.ssr_output >= 0 /\ roaster.status.ssr_output <= 100
    /\ roaster.status.fan_output >= 0 /\ roaster.status.fan_output <= 100

\* C11: after set_percentage has been called with the hardware status not
\* Available, the duty written to the heater's PWM channel is 0, whatever
\* power was commanded.
UnavailableHeaterOff ==
    (/\ ssrOp.op = "set_percentage"
     /\ ssrOp.ret = "Ok"
     /\ ~IsHeatingAvailable(ssr))
    => pwm = 0

\* the other channel is the active one when on_command_received is called
OtherChannelActive ==
    /\ muxOp.op = "on_command_received"
    /\ muxOp.before.active_channel \notin {"None", muxOp.channel}

\* C12: on_command_received(ch) is accepted exactly when the active channel
\* is None or ch; it then leaves ch active with the timestamp refreshed;
\* when the other channel is active it is rejected and the multiplexer is
\* left as it was.
AcceptedIffNoneOrSame ==
    muxOp.op = "on_command_received" =>
        /\ muxOp.accepted <=> ~OtherChannelActive
        /\ muxOp.accepted =>
               mux = [active_channel |-> muxOp.channel,
                      last_command_time |-> {muxOp.at}]
        /\ ~muxOp.accepted => mux = muxOp.before

\* a command of the other channel was rejected some time after the active
\* channel's last command
OtherChannelRejected ==
    /\ OtherChannelActive
    /\ ~muxOp.accepted
    /\ \E last_time \in mux.last_command_time : last_time < muxOp.at

\* C13: with the other channel active, a command is rejected until the
\* multiplexer has been idle for IDLE_TIMEOUT_SECS; once it has, the command
\* is accepted and its channel becomes the active one.
IdleTimeoutSwitchesChannel ==
    OtherChannelActive =>
        /\ muxOp.accepted <=> IsIdle(muxOp.before, muxOp.at)
        /\ muxOp.accepted => mux.active_channel = muxOp.channel

\* C14: after reset() the active channel is None and is_idle() holds, and
\* the next command, from either channel, is accepted and activates its
\* channel.
ResetReturnsToNone ==
    /\ muxOp.op = "reset" =>
           /\ GetActiveChannel(mux) = "None"
           /\ IsIdle(mux, now)
    /\ (muxOp.op = "on_command_received" /\ muxOp.prev = "reset") =>
           /\ muxOp.accepted
           /\ GetActiveChannel(mux) = muxOp.channel

\* reset() was called, and the Uart command that followed was accepted
ResetThenOtherChannel ==
    /\ muxOp.op = "on_command_received"
    /\ muxOp.prev = "reset"
    /\ muxOp.channel = "Uart"
    /\ muxOp.accepted
    /\ mux.active_channel = "Uart"

\* a step of one of the two reader tasks
ReaderStep == calls' # calls /\ lastOp' = lastOp

\* C15: a line arriving on the channel that lost the arbitration puts no
\* command on the command queue, does not reach the core, and puts no line
\* on the output queue or on either serial port.
NonActiveChannelDropped ==
    [][ (ReaderStep /\ muxOp'.before.active_channel \notin {"None", muxOp'.channel})
            => UNCHANGED <<roaster, mux, cmdq, outq, wire>>
      ]_vars

\* with Usb active and a Usb command still queued, a Uart command was
\* rejected
LosingChannelIgnored ==
    /\ muxOp.op = "should_process_command"
    /\ muxOp.channel = "Uart"
    /\ muxOp.before.active_channel = "Usb"
    /\ ~muxOp.accepted
    /\ cmdq # <<>>

\* C16: a line taken from the output queue is written only to the channel
\* that is active at that moment, never to the other one.
WrittenOnlyToActiveChannel ==
    [][ \A ch \in Channels :
            Len(wire'[ch]) > Len(wire[ch]) => GetActiveChannel(mux) = ch
      ]_vars

\* a reader task has handled a line the parser rejected
BadLineStep == ReaderStep /\ muxOp'.op = "should_write_to"

\* the ERR line the firmware's tests expect for each rejected line
ExpectedErr(line) ==
    CASE line = Line(FALSE, <<>>) -> ErrLine("invalid_value", "empty_command")
      [] line = Line(FALSE, <<Word("BOGUS")>>) ->
           ErrLine("unknown_command", "unknown_command")
      [] line = Line(FALSE, <<Word("OT1"), Numeral(150)>>) ->
           ErrLine("out_of_range", "out_of_range")
      [] line = Line(FALSE, <<Word("OT1"), Word("abc")>>) ->
           ErrLine("invalid_value", "invalid_value")

\* C17 as stated: every rejected line from the active channel puts exactly
\* one ERR line on the output queue and changes neither the command queue
\* nor the core
ParseErrorAlwaysReported ==
    [][BadLineStep /\ ShouldWriteTo(mux, rx'.channel)
        => /\ outq' = Append(outq, ExpectedErr(rx'.line))
           /\ UNCHANGED <<cmdq, roaster>>]_vars

\* C17: a rejected line from the active channel puts exactly one ERR line,
\* with the code and message of its error, on the output queue when the queue
\* has room, and none when the queue already holds 16 lines; in both cases
\* the command queue and the core (SystemStatus, streaming) are unchanged
ParseErrorReported ==
    [][BadLineStep /\ ShouldWriteTo(mux, rx'.channel)
        => /\ outq' = IF Len(outq) < ARTISAN_OUTPUT_CHANNEL_SIZE
                      THEN Append(outq, ExpectedErr(rx'.line))
                      ELSE outq
           /\ UNCHANGED <<cmdq, roaster>>]_vars

\* an empty line from the active channel was answered with its ERR line
EmptyLineAnswered ==
    /\ muxOp.op = "should_write_to"
    /\ muxOp.accepted
    /\ rx.line = Line(FALSE, <<>>)
    /\ outq # <<>>
    /\ outq[Len(outq)] = ErrLine("invalid_value", "empty_command")
    /\ cmdq # <<>>

\* a reader task has handed a parsed command to the multiplexer
CommandStep == ReaderStep /\ muxOp'.op = "should_process_command"

\* C18: a valid command from the active channel that finds 8 commands in
\* the command queue is dropped, the 8 stay as they are, and exactly one line
\* ERR invalid_value invalid_value is put on the output queue
QueueFullReported ==
    [][CommandStep /\ muxOp'.accepted /\ Len(cmdq) = ARTISAN_COMMAND_CHANNEL_SIZE
        => /\ cmdq' = cmdq
           /\ outq' = Append(outq, ErrLine("invalid_value", "invalid_value"))]_vars

\* the control task has run one cycle
CycleStep == lastOp' # lastOp /\ lastOp'.op = "control_loop"

\* the command the firmware's tests expect for each valid line
ExpectedCommand(line) ==
    CASE line = Line(FALSE, <<Word("READ")>>) -> Cmd("ReadStatus", 0)
      [] line = Line(FALSE, <<Word("START")>>) -> Cmd("StartRoast", 0)
      [] line = Line(FALSE, <<Word("STOP")>>) -> Cmd("EmergencyStop", 0)
      [] line = Line(FALSE, <<Word("OT1"), Numeral(50)>>) -> Cmd("SetHeater", 50)
      [] line = Line(FALSE, <<Word("IO3"), Numeral(60)>>) -> Cmd("SetFan", 60)

\* C19: accepted commands are processed in arrival order, none reordered or
\* duplicated: an accepted command goes behind all the waiting ones, a
\* control cycle hands the core the oldest waiting command and removes
\* exactly that one, and no other step touches the command queue
ArrivalOrderKept ==
    [][/\ CommandStep /\ muxOp'.accepted
            /\ Len(cmdq) < ARTISAN_COMMAND_CHANNEL_SIZE
          => cmdq' = Append(cmdq, ExpectedCommand(rx'.line))
       /\ CycleStep /\ cmdq # <<>>
          => lastOp'.cmd = Head(cmdq) /\ cmdq' = Tail(cmdq)
       /\ CycleStep /\ cmdq = <<>>
          => lastOp'.cmd = Cmd("None", 0) /\ cmdq' = cmdq
       /\ ~CycleStep /\ ~(CommandStep /\ muxOp'.accepted)
          => cmdq' = cmdq]_vars

\* READ and then OT1 50 arrived; the core has processed READ, OT1 50 waits
FirstProcessedSecondWaits ==
    /\ lastOp.op = "control_loop"
    /\ lastOp.cmd = Cmd("ReadStatus", 0)
    /\ rx.line = Line(FALSE, <<Word("OT1"), Numeral(50)>>)
    /\ cmdq = <<Cmd("SetHeater", 50)>>

\* the control task has run a cycle that popped a ReadStatus command
ReadCycleStep == CycleStep /\ cmdq # <<>> /\ Head(cmdq).type = "ReadStatus"

\* the cycle's READ response goes on the output queue behind the waiting
\* lines, followed by at most the cycle's telemetry line
ReadReplyEnqueuedFirst ==
    LET n == Len(outq)
    IN  /\ Len(outq') > n
        /\ SubSeq(outq', 1, n + 1) = Append(outq, FormatReadResponseFull(roaster.status))
        /\ \/ Len(outq') = n + 1
           \/ Len(outq') = n + 2 /\ outq'[n + 2].kind = "telemetry"

\* an output task takes a READ response off the output queue
ReadReplyTaken ==
    /\ calls' = calls
    /\ outq # <<>>
    /\ Head(outq).kind = "read"
    /\ outq' = Tail(outq)

\* C20: a cycle that pops ReadStatus enqueues the READ response in that
\* cycle, ahead of the telemetry line of that cycle, and the output tasks
\* hand the READ response to the host, that is, to the active channel
ReadReplyBeforeTelemetry ==
    [][/\ ReadCycleStep => ReadReplyEnqueuedFirst
       /\ ReadReplyTaken
          => /\ GetActiveChannel(mux) \in Channels
             /\ wire' = [wire EXCEPT ![GetActiveChannel(mux)] =
                                         Append(@, Head(outq))]]_vars

\* the control task has run a cycle whose command the core answered with
\* an error
FailedCycleStep ==
    /\ CycleStep
    /\ cmdq # <<>>
    /\ ProcessArtisanCommand(roaster, Head(cmdq)).ret # "Ok"

HandlerFailedLine == ErrLine("handler_failed", "temperature_out_of_range")

\* C21 as stated: every failed command puts exactly one line
\* ERR handler_failed <token> on the output queue, and the control task
\* goes on to the next command
HandlerErrorAlwaysReported ==
    [][/\ FailedCycleStep
          => /\ Len(outq') = Len(outq) + 1
             /\ outq' = Append(outq, HandlerFailedLine)
       /\ CycleStep => ~panicked' /\ (cmdq # <<>> => cmdq' = Tail(cmdq))]_vars

\* C21: a failed command puts exactly one line ERR handler_failed <token>
\* on the output queue when the queue has room, and none when it already
\* holds 16 lines; either way the failed command is consumed, the control
\* task does not stop, and every cycle takes the next waiting command
HandlerErrorReported ==
    [][/\ FailedCycleStep
          => outq' = IF Len(outq) < ARTISAN_OUTPUT_CHANNEL_SIZE
                     THEN Append(outq, HandlerFailedLine)
                     ELSE outq
       /\ CycleStep => ~panicked' /\ (cmdq # <<>> => cmdq' = Tail(cmdq))]_vars

\* two commands failed one after the other, and each was answered
TwoFailuresAnswered ==
    /\ lastOp.op = "control_loop"
    /\ lastOp.cmd = Cmd("EmergencyStop", 0)
    /\ Len(outq) >= 2
    /\ outq[Len(outq)] = HandlerFailedLine
    /\ outq[Len(outq) - 1] = HandlerFailedLine

Streaming(rc) == IsContinuousEnabled(rc.temp_handler.output_manager)

\* StartRoast is applied through the operation through which the call
\* before it applied StartRoast
SecondStartStep ==
    /\ calls' # calls
    /\ lastOp.cmd.type = "StartRoast"
    /\ lastOp'.cmd.type = "StartRoast"
    /\ lastOp'.op = lastOp.op

EmergencyStopZeroesOutputs ==
    /\ lastOp.op \in {"process_command", "process_artisan_command"}
    /\ lastOp.cmd.type \in {"EmergencyStop", "ArtisanEmergencyStop"}
    => /\ roaster.status.ssr_output = 0
       /\ roaster.status.fault_condition

\* the control task has run a cycle that popped the command of a STOP line
StopCycleStep == CycleStep /\ cmdq # <<>> /\ Head(cmdq).type = "EmergencyStop"

\* C24: the cycle that executes a STOP line, the first or a repeated one,
\* reports no error, leaves heater and fan output at 0, pid_enabled and
\* artisan_control cleared and streaming off, and does not move the core to
\* state EmergencyStop
StopLineStopsQuietly ==
    [][StopCycleStep
        => /\ \A i \in (Len(outq) + 1)..Len(outq') : outq'[i].kind # "err"
           /\ roaster'.status.ssr_output = 0
           /\ roaster'.status.fan_output = 0
           /\ ~roaster'.status.pid_enabled
           /\ ~roaster'.status.artisan_control
           /\ ~Streaming(roaster')
           /\ roaster'.state # "EmergencyStop"]_vars

\* StartRoast is applied in state Idle and returns Ok
IdleStartStep ==
    /\ calls' # calls
    /\ lastOp'.cmd.type = "StartRoast"
    /\ lastOp'.ret = "Ok"
    /\ roaster.state = "Idle"

\* C25: a StartRoast that returns Ok while the roaster is in state Idle
\* moves it to state Heating, with pid_enabled set and streaming on
StartMovesIdleToHeating ==
    [][IdleStartStep
        => /\ roaster'.state = "Heating"
           /\ roaster'.status.pid_enabled
           /\ Streaming(roaster')]_vars

\* a manual heater or fan command with a value above 100 is applied
ManualAbove100Step ==
    /\ calls' # calls
    /\ lastOp'.cmd.type \in {"SetHeaterManual", "SetFanManual", "SetHeater", "SetFan"}
    /\ lastOp'.cmd.arg > 100

\* C26: a manual heater or fan command with a value above 100, through the
\* handler chain or through process_artisan_command, returns InvalidState
\* and leaves the whole core (status, manual values, PID, streaming) as it was
ManualAbove100Rejected ==
    [][ManualAbove100Step
        => /\ lastOp'.ret = "InvalidState"
           /\ roaster' = roaster]_vars

\* the first handler, in the order Safety, Temperature, Manual/Artisan,
\* System, whose can_handle accepts the command
FirstClaiming(cmd) ==
    IF SafetyCanHandle(cmd) THEN "Safety"
    ELSE IF TempCanHandle(cmd) THEN "Temperature"
    ELSE IF ArtisanCanHandle(cmd) THEN "Manual"
    ELSE IF SystemCanHandle(cmd) THEN "System"
    ELSE "None"

\* what that handler alone does with the command
RunAlone(who, rc, cmd) ==
    CASE who = "Safety" -> SafetyHandleCommand(rc.safety_handler, cmd, rc.status)
      [] who = "Temperature" -> TempHandleCommand(rc.temp_handler, cmd, rc.status)
      [] who = "Manual" -> ArtisanHandleCommand(rc.artisan_handler, cmd, rc.status)
      [] who = "System" -> SystemHandleCommand("system", cmd, rc.status)

\* C27: process_command runs exactly one handler, the first in the order
\* Safety, Temperature, Manual/Artisan, System that claims the command: its
\* Result is returned, its state and the status are as it left them (with
\* fault_condition mirrored from the latch) and the other handlers are
\* untouched; a command nobody claims returns InvalidState and changes nothing
FirstClaimingHandlerRuns ==
    [][calls' # calls /\ lastOp'.op = "process_command"
        => LET cmd == lastOp'.cmd
               who == FirstClaiming(cmd)
           IN  IF who = "None"
               THEN lastOp'.ret = "InvalidState" /\ roaster' = roaster
               ELSE LET r == RunAlone(who, roaster, cmd)
                    IN  /\ lastOp'.ret = r.ret
                        /\ roaster'.safety_handler =
                             IF who = "Safety" THEN r.h ELSE roaster.safety_handler
                        /\ roaster'.temp_handler =
                             IF who = "Temperature" THEN r.h ELSE roaster.temp_handler
                        /\ roaster'.artisan_handler =
                             IF who = "Manual" THEN r.h ELSE roaster.artisan_handler
                        /\ roaster'.status =
                             [r.status EXCEPT !.fault_condition =
                                 IsEmergencyActive(roaster'.safety_handler)]]_vars

\* SetHeaterManual, which Temperature and Manual/Artisan both claim, was
\* run by Temperature: the status has the value, the Manual handler has not
TemperatureWonSetHeaterManual ==
    /\ lastOp.op = "process_command"
    /\ lastOp.cmd = Cmd("SetHeaterManual", 50)
    /\ lastOp.ret = "Ok"
    /\ roaster.status.ssr_output = 50
    /\ roaster.artisan_handler.manual_heater # 50

\* output/scheduler.rs: the interval of the 1 Hz scheduler
TELEMETRY_INTERVAL_MS == 1000

\* the telemetry lines waiting on the output queue
TelemetryLines(q) == {i \in 1..Len(q) : q[i].kind = "telemetry"}

\* C28: the control cycle enqueues a telemetry line only when streaming is on
\* and the scheduler reports it due, so that after `now` milliseconds of
\* 100 ms cycles no more than one telemetry line per started 1000 ms has
\* been produced
TelemetryOncePerInterval ==
    Cardinality(TelemetryLines(outq)) * TELEMETRY_INTERVAL_MS
        <= now + TELEMETRY_INTERVAL_MS

\* a read on the channel has just delivered the CR of a host line, the only
\* line that the read completes
CrArrives(channel) ==
    /\ sent'[channel] # sent[channel]
    /\ sent'[channel].cr
    /\ sent'[channel].earlier = <<>>

\* a read on the channel has just delivered bytes without a CR
PartialArrives(channel) == sent'[channel] # sent[channel] /\ ~sent'[channel].cr

\* C29: the bytes of a line are accumulated across the reads of a channel:
\* when the CR of a valid line arrives on a channel the arbitration accepts,
\* the line's command, one command, is appended to the command queue and no
\* error line is enqueued, in however many reads the line came; bytes that
\* arrive without a CR add neither a command nor an output line
BytesAccumulatedAcrossReads ==
    [][\A channel \in Channels :
        /\ (/\ CrArrives(channel)
            /\ ParseResult(LineOf(sent'[channel].bytes)).ok
            /\ ShouldProcessCommand(mux, channel, now).accepted)
           => /\ cmdq' = Append(cmdq, ParseResult(LineOf(sent'[channel].bytes)).cmd)
              /\ outq' = outq
        /\ PartialArrives(channel) => cmdq' = cmdq /\ outq' = outq]_vars

HeaterStepped(type) ==
    /\ calls' # calls
    /\ lastOp'.op = "process_command"
    /\ lastOp'.cmd.type = type
    /\ roaster.status.ssr_output \in 0..100

ControlCycleStep == calls' # calls /\ lastOp'.op = "update_control"

\* the PID branch of the priority: a fresh PID output when a sample time
\* has passed since the last one, the previous output in between
PidDue(rc, t) == \A last_update \in rc.last_pid_update : t - last_update >= PID_SAMPLE_TIME_MS

\* the heater output the priority order chooses for a cycle on rc at time t,
\* the latch being read as `latched`
ChosenOutput(rc, t, latched) ==
    IF latched THEN 0
    ELSE IF rc.status.artisan_control THEN rc.artisan_handler.manual_heater
    ELSE IF rc.status.pid_enabled /\ rc.status.ssr_hardware_status = "Available"
    THEN IF PidDue(rc, t)
         THEN PidComputeOutput(rc.temp_handler.pid_controller, rc.status.bean_temp)
         ELSE rc.status.ssr_output
    ELSE 0

\* C31: every control cycle leaves in ssr_output the value the priority
\* order chooses: 0 with the Safety latch set (as the cycle found it, or as
\* the cycle's own timeout check left it), else manual_heater under
\* artisan_control, else the PID output when pid_enabled and the heater
\* hardware is Available, else 0
CycleChoosesByPriority ==
    [][ControlCycleStep
        => \/ roaster'.status.ssr_output =
                Clamp(ChosenOutput(roaster, now, IsEmergencyActive(roaster.safety_handler)),
                      0, 100)
           \/ roaster'.status.ssr_output =
                Clamp(ChosenOutput(roaster, now, IsEmergencyActive(roaster'.safety_handler)),
                      0, 100)]_vars

\* a control cycle that directly follows an accepted SetHeaterManual given
\* through process_command, with the Safety latch clear
CycleAfterSetHeaterManual ==
    /\ ControlCycleStep
    /\ lastOp.op = "process_command"
    /\ lastOp.cmd.type = "SetHeaterManual"
    /\ lastOp.ret = "Ok"
    /\ ~IsEmergencyActive(roaster.safety_handler)
    /\ lastOp'.ret = "Ok"

\* C32: whichever handler executes a valid SetHeaterManual(v), afterwards
\* the PID is disabled, artisan_control is set, ssr_output is v, and the
\* control cycle that follows applies v as the heater output
SetHeaterManualAppliedByCycle ==
    [][CycleAfterSetHeaterManual
        => /\ ~roaster.status.pid_enabled
           /\ roaster.status.artisan_control
           /\ roaster.status.ssr_output = lastOp.cmd.arg
           /\ roaster'.status.ssr_output = lastOp.cmd.arg]_vars

\* C33: the heater's reported status reflects PWM failures as well as the
\* heat-presence sensor: after a set_percentage (set_power) whose PWM write
\* failed, get_status reports Error
PwmErrorReportedInStatus ==
    (ssrOp.op = "set_percentage" /\ ssrOp.ret = "PwmError")
        => HeaterGetStatus(ssr) = "Error"

Asserted == {d \in Devices : spi.cs[d]}

BadLineBeforeActivation == BadLineStep /\ GetActiveChannel(mux) = "None"

\* C35: a malformed line that arrives while the arbiter has no active
\* channel still puts exactly one ERR line, with the code and message of its
\* error, on the output queue, and no command on the command queue
ErrBeforeActivation ==
    [][BadLineBeforeActivation
        => /\ outq' = Append(outq, ExpectedErr(rx'.line))
           /\ cmdq' = cmdq]_vars

\* process_command has just executed a Reset
ResetDone ==
    /\ lastOp.op = "process_command"
    /\ lastOp.cmd.type = "Reset"
    /\ lastOp.ret = "Ok"

\* C36: after a Reset the core is as freshly initialised: streaming is off,
\* the manual heater and fan values are 0 and the PID is disabled, so that a
\* StartRoast that follows starts a new session
ResetLeavesFreshCore ==
    ResetDone
        => /\ ~IsContinuousEnabled(roaster.temp_handler.output_manager)
           /\ roaster.artisan_handler.manual_heater = 0
           /\ roaster.artisan_handler.manual_fan = 0
           /\ ~roaster.temp_handler.pid_controller.enabled
           /\ ~roaster.status.pid_enabled

\* C37: the arbiter's mutable borrow is never taken while it is held, also
\* when a reader finds the command queue full inside its critical section,
\* so no reader task ever aborts
ReaderNeverAborts == ~panicked

\* a control cycle in which the PID branch computed a non-zero heater output
PidHeatsInCycle ==
    /\ ControlCycleStep
    /\ lastOp'.ret = "Ok"
    /\ ~IsEmergencyActive(roaster.safety_handler)
    /\ ~roaster.status.artisan_control
    /\ roaster.status.pid_enabled
    /\ roaster'.status.ssr_output > 0

\* a valid reading exists that is younger than the validity timeout
FreshReading(rc, t) ==
    \E last_read \in rc.last_temp_read : t - last_read < TEMP_VALIDITY_TIMEOUT_MS

\* C38: the PID heats only in cycles that have a valid temperature reading
\* younger than the validity timeout; with no reading ever taken a
\* PID-enabled cycle leaves the heater at 0
PidHeatsOnlyWithFreshReading ==
    [][PidHeatsInCycle => FreshReading(roaster, now)]_vars

\* a read on the channel has just delivered two complete lines, both valid,
\* on a channel the arbitration accepts
TwoValidLinesArrive(channel) ==
    /\ sent'[channel] # sent[channel]
    /\ sent'[channel].earlier # <<>>
    /\ ParseResult(LineOf(sent'[channel].earlier[1])).ok
    /\ ParseResult(LineOf(sent'[channel].bytes)).ok
    /\ ShouldProcessCommand(mux, channel, now).accepted

\* C39: when one read returns several CR-terminated lines, each of them is
\* parsed and handled, in order: two valid lines in one read append their
\* two commands to the command queue, the first line's first
EveryLineOfReadHandled ==
    [][\A channel \in Channels :
        TwoValidLinesArrive(channel)
            => cmdq' = cmdq \o <<ParseResult(LineOf(sent'[channel].earlier[1])).cmd,
                                 ParseResult(LineOf(sent'[channel].bytes)).cmd>>]_vars

\* set_percentage has just returned Ok for a percentage in 0..100
PercentageWritten ==
    /\ ssrOp.op = "set_percentage"
    /\ ssrOp.ret = "Ok"
    /\ ssrOp.percentage \in 0..100

\* C40: for every percentage 0..100 the duty written to the heater's PWM
\* channel is the duty recorded as current_duty, and at 100 it is the full
\* scale, 255 of 255
WrittenDutyIsRecordedDuty ==
    PercentageWritten
        => /\ pwm = ssr.current_duty
           /\ ssrOp.percentage = 100 => pwm = 255

====
